---- MODULE Spec2Model ----
(***************************************************************************)
(* A model of the vocabulary-capture command line tools                    *)
(*   src/lookup_to_anki_multi_lang.py  (the multi-language script)         *)
(*   src/lookup_to_anki.py             (the single-language script)        *)
(*                                                                         *)
(* A Python str is modelled as a sequence of characters.  To keep the      *)
(* literals of the source readable, a run of characters that no operation  *)
(* of the program looks into (a word of a message or of a template) is     *)
(* written as one element; every character an operation does look at       *)
(* (space, tab, newline, "-", "[", "]", "(", ")" and the letters of a      *)
(* language code) is an element of its own.                                *)
(***************************************************************************)
EXTENDS Integers, Sequences, FiniteSets, TLC

(***************************************************************************)
(* Bounds of the model                                                     *)
(***************************************************************************)
MaxInvocations == 2

(***************************************************************************)
(* Python str methods, as the scripts use them                             *)
(***************************************************************************)
TAB == "\t"
NL == "\n"
SP == " "
Whitespace == {SP, TAB, NL}

RECURSIVE str_lstrip(_)
str_lstrip(s) ==
    IF s # <<>> /\ Head(s) \in Whitespace THEN str_lstrip(Tail(s)) ELSE s

RECURSIVE str_rstrip(_)
str_rstrip(s) ==
    IF s # <<>> /\ s[Len(s)] \in Whitespace
    THEN str_rstrip(SubSeq(s, 1, Len(s) - 1))
    ELSE s

\* s.strip()
str_strip(s) == str_rstrip(str_lstrip(s))

lower_char(c) ==
    CASE c = "A" -> "a"
      [] c = "B" -> "b"
      [] c = "C" -> "c"
      [] c = "D" -> "d"
      [] c = "E" -> "e"
      [] c = "F" -> "f"
      [] c = "G" -> "g"
      [] c = "H" -> "h"
      [] c = "I" -> "i"
      [] c = "J" -> "j"
      [] c = "K" -> "k"
      [] c = "L" -> "l"
      [] c = "M" -> "m"
      [] c = "N" -> "n"
      [] c = "O" -> "o"
      [] c = "P" -> "p"
      [] c = "Q" -> "q"
      [] c = "R" -> "r"
      [] c = "S" -> "s"
      [] c = "T" -> "t"
      [] c = "U" -> "u"
      [] c = "V" -> "v"
      [] c = "W" -> "w"
      [] c = "X" -> "x"
      [] c = "Y" -> "y"
      [] c = "Z" -> "z"
      [] c = "Swedish" -> "swedish"
      [] c = "Bra" -> "bra"
      [] c = "Hello" -> "hello"
      [] OTHER -> c

\* s.lower()
str_lower(s) == [i \in 1..Len(s) |-> lower_char(s[i])]

\* whether sub occurs in s at position i
str_at(s, sub, i) ==
    /\ i + Len(sub) - 1 <= Len(s)
    /\ SubSeq(s, i, i + Len(sub) - 1) = sub

\* s.find(sub) + 1 : the position of the first occurrence, 0 when absent
str_find(s, sub) ==
    IF \E i \in 1..Len(s) : str_at(s, sub, i)
    THEN CHOOSE i \in 1..Len(s) :
            /\ str_at(s, sub, i)
            /\ \A j \in 1..(i - 1) : ~str_at(s, sub, j)
    ELSE 0

\* sub in s
str_in(sub, s) == str_find(s, sub) > 0

\* s.split(sub)[0]
str_split_head(s, sub) ==
    IF str_in(sub, s) THEN SubSeq(s, 1, str_find(s, sub) - 1) ELSE s

\* s.split(sub, 1)[1], used only where sub occurs in s
str_split_tail(s, sub) ==
    SubSeq(s, str_find(s, sub) + Len(sub), Len(s))

\* sep.join(parts)
RECURSIVE str_join(_, _)
str_join(sep, parts) ==
    IF parts = <<>> THEN <<>>
    ELSE IF Len(parts) = 1 THEN parts[1]
    ELSE parts[1] \o sep \o str_join(sep, Tail(parts))

\* the lines of a text as iteration over a file (or splitlines) yields them,
\* each without its newline
RECURSIVE text_lines(_)
text_lines(s) ==
    IF s = <<>> THEN <<>>
    ELSE IF str_in(<<NL>>, s)
         THEN <<str_split_head(s, <<NL>>)>> \o text_lines(str_split_tail(s, <<NL>>))
         ELSE <<s>>

(***************************************************************************)
(* Outcomes of the external collaborators.  A call either raises or        *)
(* returns a value.                                                        *)
(***************************************************************************)
Raised == [tag |-> "raise", val |-> <<>>]
Returned(v) == [tag |-> "ok", val |-> v]

s_en == <<"e", "n">>
s_sv == <<"s", "v">>
s_zh == <<"z", "h">>
s_fr == <<"f", "r">>
s_auto == <<"a", "u", "t", "o">>
s_en2sv == <<"e", "n", "2", "s", "v">>

(***************************************************************************)
(* Language resolution                                                     *)
(***************************************************************************)
\* the table of language names in detect_lang_auto
mapping(code) ==
    CASE code = <<"english">> -> s_en
      [] code = <<"swedish">> -> s_sv
      [] code = <<"svenska">> -> s_sv
      [] code = <<"chinese">> -> s_zh
      [] code = <<"chinese", SP, "(", "simplified", ")">> -> s_zh
      [] OTHER -> <<>>

\* s[:2]
str_first2(s) == SubSeq(s, 1, IF Len(s) < 2 THEN Len(s) ELSE 2)

\* the second detector: the output of "trans -id -b"
detect_by_trans(ident) ==
    IF ident.tag = "raise" THEN s_en
    ELSE LET code == str_lower(str_strip(ident.val))
         IN  IF mapping(code) # <<>> THEN mapping(code)
             ELSE IF code # <<>> THEN str_first2(str_split_head(code, <<"-">>))
             ELSE s_en

\* detect_lang_auto(text): det is the outcome of langdetect.detect(text)
\* (raising also when the library is not installed), ident the outcome of
\* the translate-shell identification
detect_lang_auto(det, ident) ==
    IF det.tag = "ok" /\ det.val # <<>>
    THEN str_split_head(det.val, <<"-">>)
    ELSE detect_by_trans(ident)

\* main: lang = args.lang.lower(); if lang == "auto": lang = detect_lang_auto(term)
resolve_language(arg_lang, det, ident) ==
    LET lang == str_lower(arg_lang)
    IN  IF lang = s_auto THEN detect_lang_auto(det, ident) ELSE lang

\* the file name without the normalisation of codes such as 'zh-cn'
tsv_path_whole_code(lang_code) ==
    <<"vocab_">> \o str_lower(IF lang_code = <<>> THEN s_en ELSE lang_code) \o <<".tsv">>

\* tsv_path_for_lang(lang_code): the file name under REPO_DIR
tsv_path_for_lang(lang_code) ==
    LET code0 == str_lower(IF lang_code = <<>> THEN s_en ELSE lang_code)
        code  == IF Len(code0) > 2 THEN str_split_head(code0, <<"-">>) ELSE code0
    IN  <<"vocab_">> \o code \o <<".tsv">>

\* the file of the single-language script
TSV_FILE == <<"vocab.tsv">>

(***************************************************************************)
(* Bridge translation                                                      *)
(***************************************************************************)
RECURSIVE first_nonempty_line(_)
first_nonempty_line(lines) ==
    IF lines = <<>> THEN <<>>
    ELSE IF str_strip(Head(lines)) # <<>> THEN str_strip(Head(lines))
    ELSE first_nonempty_line(Tail(lines))

\* trans_brief(src, dst, text): out is the outcome of the trans subprocess
trans_brief(out) ==
    IF out.tag = "raise" THEN <<>> ELSE first_nonempty_line(text_lines(out.val))

(***************************************************************************)
(* English dictionary lookup                                               *)
(***************************************************************************)
\* An HTTP exchange ends in one of:
\*   kind "http"    an HTTP error status (urllib raises HTTPError), code set
\*   kind "neterr"  no connection or a timeout (URLError)
\*   kind "empty"   a 200 response with an empty body
\*   kind "html"    a 200 response whose body starts with "<"
\*   kind "badjson" a 200 response whose body is not JSON
\*   kind "json"    a 200 response with JSON, data set
Response(kind, code, data) == [kind |-> kind, code |-> code, data |-> data]

\* the result of a Python call: a value, or an exception of a class
Value(v) == [exc |-> "", val |-> v, msg |-> <<>>]
Exc(class, msg) == [exc |-> class, val |-> <<>>, msg |-> msg]

\* JSON values that are not an array of entries (None, or an object)
JsonNone == [type |-> "none"]
JsonList(entries) == [type |-> "list", entries |-> entries]
JsonDict == [type |-> "dict", sections |-> <<>>]

\* fetch_json of the multi-language script: every failure becomes None
fetch_json(resp) ==
    IF resp.kind = "json" THEN Value(resp.data) ELSE Value(JsonNone)

\* fetch_json of the single-language script: nothing is caught
fetch_json_single(resp) ==
    CASE resp.kind = "json" -> Value(resp.data)
      [] resp.kind = "http" -> Exc("HTTPError", resp.code)
      [] resp.kind = "neterr" -> Exc("URLError", <<"urlopen", SP, "error">>)
      [] OTHER -> Exc("JSONDecodeError", <<"Expecting", SP, "value">>)

\* short = f"[{part}] {defi}".strip(); if ex: short += f" (e.g. {ex})"
def_short(part, d) ==
    LET short == str_strip(<<"[">> \o part \o <<"]", SP>> \o d.definition)
    IN  IF d.example # <<>>
        THEN short \o <<SP, "(", "e.g.", SP>> \o d.example \o <<")">>
        ELSE short

RECURSIVE defs_of_definitions(_, _)
defs_of_definitions(part, ds) ==
    IF ds = <<>> THEN <<>>
    ELSE (IF def_short(part, Head(ds)) # <<>> THEN <<def_short(part, Head(ds))>> ELSE <<>>)
         \o defs_of_definitions(part, Tail(ds))

RECURSIVE defs_of_meanings(_)
defs_of_meanings(ms) ==
    IF ms = <<>> THEN <<>>
    ELSE defs_of_definitions(Head(ms).partOfSpeech, Head(ms).definitions)
         \o defs_of_meanings(Tail(ms))

\* the first non-empty "audio" of the phonetics, <<>> standing for None
RECURSIVE first_audio(_)
first_audio(ps) ==
    IF ps = <<>> THEN <<>>
    ELSE IF Head(ps) # <<>> THEN Head(ps)
    ELSE first_audio(Tail(ps))

\* the try body of english_defs_from_dictionaryapi on the fetched data
defs_from_data(data) ==
    IF data.type = "list" /\ data.entries # <<>>
    THEN [audio_url |-> first_audio(data.entries[1].phonetics),
          defs |-> defs_of_meanings(data.entries[1].meanings)]
    ELSE [audio_url |-> <<>>, defs |-> <<>>]

\* english_defs_from_dictionaryapi(word), given what fetch_json did
defs_from_fetch(fetched) ==
    CASE fetched.exc = "" -> defs_from_data(fetched.val)
      [] fetched.exc = "HTTPError" ->
            [audio_url |-> <<>>,
             defs |-> << <<"(", "dictapi", SP, "HTTP", SP>> \o fetched.msg \o <<")">> >>]
      [] OTHER ->
            [audio_url |-> <<>>,
             defs |-> << <<"(", "dictapi", SP, "error:", SP>> \o fetched.msg \o <<")">> >>]

\* english_defs_from_dictionaryapi of the multi-language script
english_defs_from_dictionaryapi(resp) == defs_from_fetch(fetch_json(resp))

\* english_defs_from_dictionaryapi of the single-language script
english_defs_from_dictionaryapi_single(resp) == defs_from_fetch(fetch_json_single(resp))

\* en_text = " ; ".join(defs) if defs else ""
join_defs(defs) == str_join(<<SP, ";", SP>>, defs)

(***************************************************************************)
(* Bilingual lexicon (Folkets lexikon)                                     *)
(***************************************************************************)
\* re.sub(r'<[^>]+>', '', s): markup tags are elements of their own
HtmlTags == {"<b>", "</b>", "<i>", "</i>", "<br>"}
strip_tags(s) == SelectSeq(s, LAMBDA e : e \notin HtmlTags)

\* A page of the lexicon service is a sequence of <P> blocks.  Of a block
\* the scraper reads: sv / en, the text in <b> after the Swedish / English
\* flag (<<>> when the pattern does not match, the pattern needing one
\* character at least), class, the word after </b> (<<>> when none), and
\* examples, the texts after "Exempel:".
Block(sv, en, class, examples) ==
    [sv |-> sv, en |-> en, class |-> class, examples |-> examples]

clean_examples(exs) ==
    SelectSeq([i \in 1..Len(exs) |-> str_strip(strip_tags(exs[i]))],
              LAMBDA e : e # <<>>)

word_class_of(block) == IF block.class # <<>> THEN block.class ELSE <<"word">>

RECURSIVE folkets_entries(_, _)
folkets_entries(blocks, lang) ==
    IF blocks = <<>> THEN <<>>
    ELSE LET b == Head(blocks)
             raw == IF lang = s_en THEN b.sv ELSE b.en
             entry == [translation |-> str_strip(raw),
                       class |-> word_class_of(b),
                       examples |-> IF lang = s_en THEN clean_examples(b.examples) ELSE <<>>]
         IN  (IF raw # <<>> THEN <<entry>> ELSE <<>>)
             \o folkets_entries(Tail(blocks), lang)

\* p_matches[:2], data[:2]
first2(seq) == SubSeq(seq, 1, IF Len(seq) < 2 THEN Len(seq) ELSE 2)

\* fetch_folkets_lexikon(word, lang): <<>> stands for None
fetch_folkets_lexikon(page, lang) ==
    IF page.tag = "raise" THEN <<>>
    ELSE folkets_entries(first2(page.val), lang)

(***************************************************************************)
(* English -> Swedish                                                      *)
(***************************************************************************)
\* example_patterns of english_to_swedish_with_examples, <<>> when no key
en2sv_example_patterns(word, sv_trans) ==
    CASE word = <<"hello">> ->
            sv_trans \o
            <<SP, "-", SP>> \o
            sv_trans \o
            <<",", SP, "hur", SP, "mår", SP, "du?", SP, "(", "Hello,", SP, "how", SP, "are", SP, "you?", ")">>
      [] word = <<"thank">> ->
            sv_trans \o
            <<SP, "-", SP>> \o
            sv_trans \o
            <<SP, "så", SP, "mycket", SP, "(", "Thank", SP, "you", SP, "so", SP, "much", ")">>
      [] word = <<"please">> ->
            sv_trans \o
            <<SP, "-", SP, "Kan", SP, "du", SP, "hjälpa", SP, "mig,", SP>> \o
            sv_trans \o
            <<"?", SP, "(", "Can", SP, "you", SP, "help", SP, "me,", SP, "please?", ")">>
      [] word = <<"yes">> ->
            sv_trans \o
            <<SP, "-", SP>> \o
            sv_trans \o
            <<",", SP, "det", SP, "stämmer", SP, "(", "Yes,", SP, "that's", SP, "right", ")">>
      [] word = <<"no">> ->
            sv_trans \o
            <<SP, "-", SP>> \o
            sv_trans \o
            <<",", SP, "det", SP, "gör", SP, "jag", SP, "inte", SP, "(", "No,", SP, "I", SP, "don't", ")">>
      [] word = <<"time">> ->
            sv_trans \o
            <<SP, "-", SP, "Vad", SP, "är", SP, "klockan?", SP, "Vilken", SP>> \o
            sv_trans \o
            <<SP, "är", SP, "det?", SP, "(", "What", SP, "time", SP, "is", SP, "it?", ")">>
      [] word = <<"day">> ->
            sv_trans \o
            <<SP, "-", SP, "Idag", SP, "är", SP, "en", SP, "bra", SP>> \o
            sv_trans \o
            <<SP, "(", "Today", SP, "is", SP, "a", SP, "good", SP, "day", ")">>
      [] word = <<"night">> ->
            sv_trans \o
            <<SP, "-", SP, "God", SP>> \o
            sv_trans \o
            <<"!", SP, "(", "Good", SP, "night!", ")">>
      [] word = <<"morning">> ->
            sv_trans \o
            <<SP, "-", SP, "God", SP>> \o
            sv_trans \o
            <<"!", SP, "(", "Good", SP, "morning!", ")">>
      [] word = <<"work">> ->
            sv_trans \o
            <<SP, "-", SP, "Jag", SP, "går", SP, "till", SP>> \o
            sv_trans \o
            <<SP, "(", "I'm", SP, "going", SP, "to", SP, "work", ")">>
      [] OTHER -> <<>>

no_translation_found == <<"(", "no", SP, "translation", SP, "found", ")">>

\* the entries of the lexicon as english_to_swedish_with_examples formats them
RECURSIVE en2sv_lexicon(_)
en2sv_lexicon(data) ==
    IF data = <<>> THEN <<>>
    ELSE LET e == Head(data)
             plain == <<"[">> \o e.class \o <<"]", SP>> \o e.translation
         IN  (IF e.translation = <<>> THEN <<>>
              ELSE IF e.examples # <<>>
              THEN << plain \o <<SP, "(", "e.g.", SP>> \o e.examples[1] \o <<")">> >>
              ELSE << plain >>)
             \o en2sv_lexicon(Tail(data))

\* the fallback of english_to_swedish_with_examples on the bridge translation
en2sv_template(word, sv_trans) ==
    IF en2sv_example_patterns(str_lower(word), sv_trans) # <<>>
    THEN <<"[", "word", "]", SP>> \o en2sv_example_patterns(str_lower(word), sv_trans)
    ELSE <<"[", "word", "]", SP>> \o sv_trans \o
         <<SP, "(", "e.g.", SP, "Jag", SP, "lär", SP, "mig", SP, "svenska", SP,
           "ord", SP, "som", SP, "'">> \o sv_trans \o <<"'", ")">>

\* the lexicon used only for the entries that carry an example
english_to_swedish_examples_only(word, page, t1, t2) ==
    LET translations ==
            en2sv_lexicon(SelectSeq(first2(fetch_folkets_lexikon(page, s_en)),
                                    LAMBDA e : e.examples # <<>>))
    IN  IF translations # <<>> THEN translations
        ELSE IF trans_brief(t1) # <<>> THEN << en2sv_template(word, trans_brief(t1)) >>
        ELSE IF trans_brief(t2) # <<>> THEN << trans_brief(t2) >>
        ELSE << no_translation_found >>

\* english_to_swedish_with_examples(word): page is the lexicon exchange,
\* t1 and t2 the outcomes of the two bridge translations it may run
english_to_swedish_with_examples(word, page, t1, t2) ==
    LET translations == en2sv_lexicon(first2(fetch_folkets_lexikon(page, s_en)))
    IN  IF translations # <<>> THEN translations
        ELSE IF trans_brief(t1) # <<>> THEN << en2sv_template(word, trans_brief(t1)) >>
        ELSE IF trans_brief(t2) # <<>> THEN << trans_brief(t2) >>
        ELSE << no_translation_found >>

\* main, en2sv branch: the Swedish word parsed out of the first translation
extract_sv_word(sv_translations) ==
    IF sv_translations = <<>> THEN <<>>
    ELSE LET first_trans == sv_translations[1]
         IN  IF ~str_in(<<"]", SP>>, first_trans) THEN <<>>
             ELSE LET after_bracket == str_split_tail(first_trans, <<"]", SP>>)
                  IN  IF str_in(<<SP, "-", SP>>, after_bracket)
                      THEN str_strip(str_split_head(after_bracket, <<SP, "-", SP>>))
                      ELSE IF str_in(<<SP, "(">>, after_bracket)
                      THEN str_strip(str_split_head(after_bracket, <<SP, "(">>))
                      ELSE str_strip(after_bracket)

\* main, en2sv branch: sv_word, with "trans_brief(...) or term" as fallback
en2sv_headword(term, sv_translations, t3) ==
    IF extract_sv_word(sv_translations) # <<>> THEN extract_sv_word(sv_translations)
    ELSE IF trans_brief(t3) # <<>> THEN trans_brief(t3)
    ELSE term

(***************************************************************************)
(* Swedish                                                                 *)
(***************************************************************************)
\* example_patterns of swedish_defs_with_examples, <<>> when no key
sv_example_patterns(word) ==
    CASE word = <<"detalj">> ->
            <<"Varje", SP, "detalj", SP, "är", SP, "viktig", SP, "(", "Every", SP, "detail", SP, "is", SP, "important", ")">>
      [] word = <<"hus">> ->
            <<"Ett", SP, "stort", SP, "hus", SP, "(", "A", SP, "big", SP, "house", ")">>
      [] word = <<"bil">> ->
            <<"Min", SP, "bil", SP, "är", SP, "röd", SP, "(", "My", SP, "car", SP, "is", SP, "red", ")">>
      [] word = <<"bok">> ->
            <<"Jag", SP, "läser", SP, "en", SP, "bok", SP, "(", "I'm", SP, "reading", SP, "a", SP, "book", ")">>
      [] word = <<"eller">> ->
            <<"Kaffe", SP, "eller", SP, "te?", SP, "(", "Coffee", SP, "or", SP, "tea?", ")">>
      [] word = <<"och">> ->
            <<"Jag", SP, "och", SP, "du", SP, "(", "You", SP, "and", SP, "I", ")">>
      [] word = <<"men">> ->
            <<"Jag", SP, "vill,", SP, "men", SP, "jag", SP, "kan", SP, "inte", SP, "(", "I", SP, "want", SP, "to,", SP, "but", SP, "I", SP, "can't", ")">>
      [] word = <<"att">> ->
            <<"Jag", SP, "vill", SP, "att", SP, "du", SP, "kommer", SP, "(", "I", SP, "want", SP, "you", SP, "to", SP, "come", ")">>
      [] word = <<"är">> ->
            <<"Det", SP, "är", SP, "bra", SP, "(", "It", SP, "is", SP, "good", ")">>
      [] word = <<"har">> ->
            <<"Jag", SP, "har", SP, "en", SP, "katt", SP, "(", "I", SP, "have", SP, "a", SP, "cat", ")">>
      [] word = <<"stor">> ->
            <<"En", SP, "stor", SP, "hund", SP, "(", "A", SP, "big", SP, "dog", ")">>
      [] word = <<"liten">> ->
            <<"Ett", SP, "litet", SP, "barn", SP, "(", "A", SP, "small", SP, "child", ")">>
      [] word = <<"bra">> ->
            <<"Det", SP, "är", SP, "mycket", SP, "bra", SP, "(", "It's", SP, "very", SP, "good", ")">>
      [] OTHER -> <<>>

\* JSON of the lexical reference: an object whose keys are language names,
\* each holding entries [partOfSpeech, definitions], a definition being
\* [definition, examples]
JsonObject(sections) == [type |-> "dict", sections |-> sections]

\* the first definition with a text, formatted ("one definition per part of speech")
RECURSIVE wiktionary_short(_, _)
wiktionary_short(part, definitions) ==
    IF definitions = <<>> THEN <<>>
    ELSE LET d == Head(definitions)
             short == <<"[">> \o part \o <<"]", SP>> \o strip_tags(d.definition)
         IN  IF d.definition = <<>> THEN wiktionary_short(part, Tail(definitions))
             ELSE IF d.examples # <<>> /\ d.examples[1] # <<>>
             THEN << short \o <<SP, "(", "e.g.", SP>> \o strip_tags(d.examples[1]) \o <<")">> >>
             ELSE << short >>

RECURSIVE wiktionary_entries(_)
wiktionary_entries(entries) ==
    IF entries = <<>> THEN <<>>
    ELSE wiktionary_short(Head(entries).partOfSpeech, Head(entries).definitions)
         \o wiktionary_entries(Tail(entries))

\* first tier of swedish_defs_with_examples
sv_wiktionary(data) ==
    IF data.type # "dict" THEN <<>>
    ELSE IF "Swedish" \in DOMAIN data.sections
    THEN wiktionary_entries(first2(data.sections["Swedish"]))
    ELSE IF "sv" \in DOMAIN data.sections
    THEN wiktionary_entries(first2(data.sections["sv"]))
    ELSE <<>>

\* second tier of swedish_defs_with_examples
RECURSIVE sv_lexicon(_)
sv_lexicon(data) ==
    IF data = <<>> THEN <<>>
    ELSE (IF Head(data).translation = <<>> THEN <<>>
          ELSE << <<"[">> \o Head(data).class \o <<"]", SP>> \o Head(data).translation >>)
         \o sv_lexicon(Tail(data))

\* third tier of swedish_defs_with_examples
sv_template(word, en_trans) ==
    IF sv_example_patterns(str_lower(word)) # <<>>
    THEN <<"[", "word", "]", SP>> \o en_trans \o <<SP, "(", "e.g.", SP>>
         \o sv_example_patterns(str_lower(word)) \o <<")">>
    ELSE <<"[", "word", "]", SP>> \o en_trans \o
         <<SP, "(", "e.g.", SP, "Jag", SP, "använder", SP, "'">> \o word \o
         <<"'", SP, "i", SP, "svenska", SP, "(", "I", SP, "use", SP, "'">> \o word \o
         <<"'", SP, "in", SP, "Swedish", ")", ")">>

\* the sources swedish_defs_with_examples calls, in the order of the calls
swedish_sources_consulted(wik, page, t1) ==
    <<"wiktionary">>
    \o (IF sv_wiktionary(fetch_json(wik).val) # <<>> THEN <<>>
        ELSE <<"lexicon">>
             \o (IF sv_lexicon(first2(fetch_folkets_lexikon(page, s_sv))) # <<>> THEN <<>>
                 ELSE <<"trans">>
                      \o (IF trans_brief(t1) # <<>> THEN <<>> ELSE <<"trans">>)))

\* the tiers tried in the order lexicon, lexical reference, translation
swedish_defs_lexicon_first(word, wik, page, t1, t2) ==
    IF sv_lexicon(first2(fetch_folkets_lexikon(page, s_sv))) # <<>>
    THEN sv_lexicon(first2(fetch_folkets_lexikon(page, s_sv)))
    ELSE IF sv_wiktionary(fetch_json(wik).val) # <<>> THEN sv_wiktionary(fetch_json(wik).val)
    ELSE IF trans_brief(t1) # <<>> THEN << sv_template(word, trans_brief(t1)) >>
    ELSE IF trans_brief(t2) # <<>> THEN << trans_brief(t2) >>
    ELSE << no_translation_found >>

\* swedish_defs_with_examples(word): wik and page are the two exchanges,
\* t1 and t2 the outcomes of the two bridge translations it may run
swedish_defs_with_examples(word, wik, page, t1, t2) ==
    IF sv_wiktionary(fetch_json(wik).val) # <<>> THEN sv_wiktionary(fetch_json(wik).val)
    ELSE IF sv_lexicon(first2(fetch_folkets_lexikon(page, s_sv))) # <<>>
    THEN sv_lexicon(first2(fetch_folkets_lexikon(page, s_sv)))
    ELSE IF trans_brief(t1) # <<>> THEN << sv_template(word, trans_brief(t1)) >>
    ELSE IF trans_brief(t2) # <<>> THEN << trans_brief(t2) >>
    ELSE << no_translation_found >>

(***************************************************************************)
(* Audio                                                                   *)
(***************************************************************************)
StreamingPlayers == {"mpv", "ffplay", "mpg123"}

\* the key of a cache file, f"{lang_code}_{word}.mp3"
cache_key(word, lang_code) == lang_code \o <<"_">> \o word \o <<".mp3">>

\* cache_audio(word, lang_code, audio_url): dl tells how far the download got
\*   "refused"  mkdir or urlopen raised: nothing is written
\*   "broken"   the file was opened for writing and read or write raised
\*   "ok"       the whole body was written
cache_audio(cache, word, lang_code, dl) ==
    CASE dl = "ok" -> (cache_key(word, lang_code) :> "complete") @@ cache
      [] dl = "broken" -> (cache_key(word, lang_code) :> "partial") @@ cache
      [] OTHER -> cache

\* play_audio(word, lang_code, audio_url, enable) of the multi-language
\* script.  fs tells whether creating the cache directory fails, player is
\* what pick_player finds ("" for None).  The result names the exception
\* that leaves the function ("" for none), the cache afterwards and what
\* was played.
play_audio(cache, word, lang_code, audio_url, enable, fs, dl, player) ==
    IF ~enable THEN [exc |-> "", cache |-> cache, played |-> "nothing"]
    ELSE IF fs = "mkdir_fail"
    THEN [exc |-> "OSError", cache |-> cache, played |-> "nothing"]
    ELSE LET key == cache_key(word, lang_code)
             cached == key \in DOMAIN cache
             cache2 == IF ~cached /\ audio_url # <<>>
                       THEN cache_audio(cache, word, lang_code, dl)
                       ELSE cache
             source == IF cached THEN "cached"
                       ELSE IF audio_url = <<>> THEN ""
                       ELSE IF dl = "ok" THEN "cached" ELSE "url"
         IN  [exc |-> "", cache |-> cache2,
              played |-> IF source # "" /\ player \in StreamingPlayers
                         THEN source ELSE "tts"]

\* play_audio(word, audio_url) of the single-language script
play_audio_single(audio_url, player) ==
    IF player = "" THEN "nothing"
    ELSE IF audio_url # <<>> /\ player \in StreamingPlayers THEN "url"
    ELSE "tts"

\* the Forvo lookup of main: key tells whether FORVO_API_KEY is set, forvo is
\* the pathmp3 of the first item (Raised when the fetch or the access fails)
forvo_audio(audio_url, key, forvo) ==
    IF key /\ forvo.tag = "ok" THEN forvo.val ELSE audio_url

(***************************************************************************)
(* Vocabulary file                                                         *)
(***************************************************************************)
\* word_exists_in_tsv(tsv_path, word) on the content of the file
word_exists_in_tsv(content, word) ==
    \E i \in 1..Len(text_lines(content)) :
        LET line == str_strip(text_lines(content)[i])
        IN  /\ line # <<>>
            /\ str_lower(str_strip(str_split_head(line, <<TAB>>))) = str_lower(word)

\* line = f"{word}\t{en_text}\t{zh_text}\n"
tsv_line(word, en_text, zh_text) ==
    word \o <<TAB>> \o en_text \o <<TAB>> \o zh_text \o <<NL>>

\* the write as mode "w" would do it: the file is truncated first
file_overwrite(content, line) == line

\* with tsv_path.open("a") as f: f.write(line)
file_append(content, line) == content \o line

(***************************************************************************)
(* Version control                                                         *)
(***************************************************************************)
\* the names bound at module level in lookup_to_anki_multi_lang.py that the
\* functions of the module read
ModuleGlobals == {"SCRIPT_DIR", "REPO_DIR", "PREFERRED_PLAYERS", "VOICE_MAP",
                  "DEFAULT_VOICE", "TRANS_CMD", "HTTP_TIMEOUT", "AUDIO_CACHE_DIR"}

\* has_remote() / git_remote_exists(): git is "ok" or "missing"
has_remote(origin, git) == git = "ok" /\ origin

GitAdd(name) == <<"add", name>>
GitCommit(message) == <<"commit", message>>
GitPush == <<"push">>

\* the three commands of git_commit_push, in order
git_commands(name, message, enable_push, origin, git) ==
    <<GitAdd(name), GitCommit(message)>>
    \o (IF enable_push /\ has_remote(origin, git) THEN <<GitPush>> ELSE <<>>)

\* git_commit_push(message, enable_push) of the multi-language script: the
\* first command is built from tsv_path, a name looked up at module level;
\* the NameError of an unbound name is caught by "except Exception: pass"
git_commit_push(name, message, enable_push, origin, git) ==
    IF "tsv_path" \in ModuleGlobals
    THEN git_commands(name, message, enable_push, origin, git)
    ELSE <<>>

\* git_commit_push(message) of the single-language script
git_commit_push_single(message, auto_push, origin, git) ==
    git_commands(TSV_FILE, message, auto_push, origin, git)

\* f"add {term}"
commit_message(term) == <<"add", SP>> \o term

(***************************************************************************)
(* What the environment may hand to one invocation                         *)
(***************************************************************************)
\* sys.argv[1:] without the options: a list of words
Argvs ==
    { <<>>,
      << <<"a">> >>,
      << <<"A">> >>,
      << <<"a">>, <<SP>> >>,
      << <<SP>> >>,
      << <<"a", TAB, "b">> >> }

\* --lang
ArgLangs ==
    { s_auto, s_en, s_sv, <<"S", "V">>, s_en2sv, s_fr, <<"e", "n", "-", "U", "S">> }

\* langdetect.detect
DetOutcomes == { Raised, Returned(<<"z", "h", "-", "c", "n">>) }

\* trans -id -b
IdentOutcomes ==
    { Raised, Returned(<<"Swedish", NL>>), Returned(<<"-", "x", NL>>) }

\* trans -b src:dst
TransOutcomes == { Raised, Returned(<<NL, SP, "hej", SP, NL>>) }

hello_entry ==
    [phonetics |-> << <<>>, <<"hello.mp3">> >>,
     meanings |-> << [partOfSpeech |-> <<"exclamation">>,
                      definitions |-> << [definition |-> <<"used", SP, "as", SP, "a", SP, "greeting">>,
                                          example |-> <<>>] >>] >>]

\* api.dictionaryapi.dev
DictResponses ==
    { Response("http", <<"404">>, JsonNone),
      Response("html", <<>>, JsonNone),
      Response("json", <<>>, JsonList(<<hello_entry>>)) }

\* folkets-lexikon.csc.kth.se
LexiconPages ==
    { Raised,
      Returned(<< Block(<<"hej">>, <<"hello">>, <<"interj">>,
                        << <<"hej", SP, "-", SP, "hello", "<br>">> >>) >>),
      Returned(<< Block(<<SP, "hej">>, <<"hello">>, <<>>, <<>>) >>) }

hej_entry ==
    [partOfSpeech |-> <<"Interjection">>,
     definitions |-> << [definition |-> <<"<b>", "hello", "</b>">>, examples |-> <<>>] >>]

\* en.wiktionary.org
WiktionaryResponses ==
    { Response("neterr", <<>>, JsonNone),
      Response("json", <<>>, JsonObject([k \in {"Swedish"} |-> <<hej_entry>>])) }

\* apifree.forvo.com
ForvoOutcomes == { Raised, Returned(<<"forvo.mp3">>) }

\* FORVO_API_KEY: whether the optional pronunciation service is configured
ForvoKeys == { FALSE }

\* what pick_player finds on the search path
Players == { "", "mpv" }

DirOutcomes == { "ok", "mkdir_fail" }
DownloadOutcomes == { "refused", "broken", "ok" }
GitOutcomes == { "ok", "missing" }

\* the word the lexicon and the translator give for the term
Translation == <<"hej">>

\* One invocation runs with its network services and the translator
\* answering ("up"), with the services failing and the translator
\* answering ("bridge"), or with all of them failing ("down").
Worlds == { "down", "bridge", "up" }

World(w) ==
    [dict |-> IF w = "up"
              THEN Response("json", <<>>, JsonList(<<hello_entry>>))
              ELSE Response("http", <<"404">>, JsonNone),
     wik |-> IF w = "up"
             THEN Response("json", <<>>, JsonObject([k \in {"Swedish"} |-> <<hej_entry>>]))
             ELSE Response("neterr", <<>>, JsonNone),
     page |-> IF w = "up"
              THEN Returned(<< Block(<<SP>> \o Translation, Translation, <<>>, <<>>) >>)
              ELSE Raised,
     trans |-> IF w = "down" THEN Raised ELSE Returned(<<NL, SP>> \o Translation \o <<SP, NL>>)]

(***************************************************************************)
(* State                                                                   *)
(***************************************************************************)
\* the processes that may run a script at the same time
Procs == {1, 2}

\* one shell session runs its invocations one after the other
Sequential == {1}

VARIABLES
    files,        \* the vocabulary files under REPO_DIR: name -> content
    audioCache,   \* the files under .audio_cache: name -> "complete" | "partial"
    gitInit,      \* whether ensure_repo has run "git init" in REPO_DIR
    started,      \* the number of invocations so far
    inv,          \* the running invocation of each process
    call          \* a function of the scripts called on its own: arguments and result

vars == <<files, audioCache, gitInit, started, inv, call>>

EmptyMap == [x \in {} |-> <<>>]

\* no invocation running
Idle ==
    [pc |-> "idle", script |-> "", branch |-> "", input |-> <<>>, term |-> <<>>,
     lang |-> <<>>, tsv_path |-> <<>>, fetch |-> "", en_text |-> <<>>,
     zh_text |-> <<>>, played |-> "nothing",
     already_exists |-> FALSE, line |-> <<>>, wrote |-> FALSE,
     push |-> FALSE, remote |-> FALSE, git |-> "", gitOps |-> <<>>,
     out |-> {}, exc |-> "", exit |-> -1]

\* no function is called on its own
NoCall == [fn |-> "", pc |-> "none"]

Init ==
    /\ files = EmptyMap
    /\ audioCache = EmptyMap
    /\ gitInit = FALSE
    /\ started = 0
    /\ inv = [p \in Procs |-> Idle]
    /\ call = NoCall

\* the state outside the function under test
Untouched ==
    /\ files = EmptyMap
    /\ audioCache = EmptyMap
    /\ gitInit = FALSE
    /\ started = 0
    /\ inv = [p \in Procs |-> Idle]

\* an exception leaves the component and main: traceback, exit status 1
Crash(r, component) ==
    [r EXCEPT !.pc = "done", !.exc = component, !.exit = 1]

(***************************************************************************)
(* The multi-language script                                               *)
(***************************************************************************)
\* a touch that would empty a file that exists
touch_truncate(fs, name) == (name :> <<>>) @@ fs

\* touch(exist_ok=True)
touch(fs, name) == IF name \in DOMAIN fs THEN fs ELSE (name :> <<>>) @@ fs

\* main up to "tsv_path = tsv_path_for_lang(lang)"; without a term argparse
\* prints the usage and exits with status 2
MainStart(p) ==
    /\ inv[p].pc = "idle"
    /\ started < MaxInvocations
    /\ \E argv \in Argvs, arg_lang \in ArgLangs, det \in DetOutcomes, ident \in IdentOutcomes :
         LET term == str_strip(str_join(<<SP>>, argv))
             lang == resolve_language(arg_lang, det, ident)
         IN  inv' = [inv EXCEPT ![p] =
                 IF argv = <<>>
                 THEN [Idle EXCEPT !.pc = "done", !.script = "multi",
                                   !.out = {"usage"}, !.exit = 2]
                 ELSE [Idle EXCEPT !.pc = "gloss", !.script = "multi",
                                   !.input = term, !.term = term, !.lang = lang,
                                   !.tsv_path = tsv_path_for_lang(lang)]]
    /\ started' = started + 1
    /\ UNCHANGED <<files, audioCache, gitInit, call>>

\* the end of a branch of main: play_audio, then on to append_tsv
AfterGloss(p, branch, fetch, term, tsv_path, en_text, zh_text, word, lang_code, audio_url) ==
    \E enable \in BOOLEAN :
    \E fs \in IF enable THEN DirOutcomes ELSE {"ok"} :
    \E dl \in IF enable /\ fs = "ok" /\ audio_url # <<>> THEN DownloadOutcomes ELSE {"refused"} :
    \E player \in IF enable /\ fs = "ok" THEN Players ELSE {""} :
        LET a == play_audio(audioCache, word, lang_code, audio_url, enable, fs, dl, player)
        IN  /\ audioCache' = a.cache
            /\ inv' = [inv EXCEPT ![p] =
                  IF a.exc # "" THEN Crash([@ EXCEPT !.branch = branch], "play_audio")
                  ELSE [@ EXCEPT !.pc = "append", !.branch = branch,
                                 !.fetch = fetch, !.term = term,
                                 !.tsv_path = tsv_path, !.en_text = en_text,
                                 !.zh_text = zh_text, !.played = a.played]]

\* the audio reference after the Forvo lookup of a branch
WithForvo(audio_url) ==
    { forvo_audio(audio_url, key, f) : key \in ForvoKeys, f \in ForvoOutcomes }

\* main, branch lang == "en"
GlossEnglish(p) ==
    /\ inv[p].pc = "gloss" /\ inv[p].script = "multi"
    /\ inv[p].lang = s_en
    /\ \E w \in Worlds :
         LET r == english_defs_from_dictionaryapi(World(w).dict)
         IN  \E url \in WithForvo(r.audio_url) :
               AfterGloss(p, "en", World(w).dict.kind, inv[p].term, inv[p].tsv_path,
                          join_defs(r.defs), trans_brief(World(w).trans),
                          inv[p].term, s_en, url)
    /\ UNCHANGED <<files, gitInit, started, call>>

\* main, branch lang == "sv"
GlossSwedish(p) ==
    /\ inv[p].pc = "gloss" /\ inv[p].script = "multi"
    /\ inv[p].lang = s_sv
    /\ \E w \in Worlds :
         LET e == World(w)
             sv_defs == swedish_defs_with_examples(inv[p].term, e.wik, e.page, e.trans, e.trans)
         IN  \E url \in WithForvo(<<>>) :
               AfterGloss(p, "sv", "", inv[p].term, inv[p].tsv_path,
                          join_defs(sv_defs), trans_brief(e.trans),
                          inv[p].term, s_sv, url)
    /\ UNCHANGED <<files, gitInit, started, call>>

\* main, branch lang == "en2sv"
GlossEn2sv(p) ==
    /\ inv[p].pc = "gloss" /\ inv[p].script = "multi"
    /\ inv[p].lang = s_en2sv
    /\ \E w \in Worlds :
         LET e == World(w)
             sv_translations == english_to_swedish_with_examples(inv[p].term, e.page, e.trans, e.trans)
             sv_word == en2sv_headword(inv[p].term, sv_translations, e.trans)
         IN  \E url \in WithForvo(<<>>) :
               AfterGloss(p, "en2sv", "", sv_word, tsv_path_for_lang(s_sv),
                          join_defs(sv_translations), trans_brief(e.trans),
                          sv_word, s_sv, url)
    /\ UNCHANGED <<files, gitInit, started, call>>

\* main, the else branch
GlossGeneric(p) ==
    /\ inv[p].pc = "gloss" /\ inv[p].script = "multi"
    /\ inv[p].lang \notin {s_en, s_sv, s_en2sv}
    /\ \E w \in Worlds :
         AfterGloss(p, "generic", "", inv[p].term, inv[p].tsv_path,
                    trans_brief(World(w).trans), trans_brief(World(w).trans),
                    inv[p].term, s_en, <<>>)
    /\ UNCHANGED <<files, gitInit, started, call>>

\* append_tsv up to the duplicate check: ensure_repo, touch, word_exists_in_tsv
AppendCheck(p) ==
    /\ inv[p].pc = "append" /\ inv[p].script = "multi"
    /\ \E fs \in {"ok", "mkdir_fail", "touch_fail"} :
         LET r == inv[p]
             line == tsv_line(r.term, r.en_text, r.zh_text)
             exists == r.tsv_path \in DOMAIN files
                       /\ word_exists_in_tsv(files[r.tsv_path], r.term)
         IN  /\ gitInit' = (gitInit \/ fs # "mkdir_fail")
             /\ files' = IF fs = "ok" THEN touch(files, r.tsv_path) ELSE files
             /\ inv' = [inv EXCEPT ![p] =
                   IF fs # "ok" THEN Crash(r, "append_tsv")
                   ELSE IF exists
                   THEN [r EXCEPT !.pc = "finish", !.already_exists = TRUE, !.line = line]
                   ELSE [r EXCEPT !.pc = "write", !.line = line]]
    /\ UNCHANGED <<audioCache, started, call>>

\* append_tsv, the write of a new line
AppendWrite(p) ==
    /\ inv[p].pc = "write" /\ inv[p].script = "multi"
    /\ \E fs \in {"ok", "write_fail"} :
         /\ files' = IF fs = "ok"
                     THEN [touch(files, inv[p].tsv_path) EXCEPT
                              ![inv[p].tsv_path] = file_append(@, inv[p].line)]
                     ELSE files
         /\ inv' = [inv EXCEPT ![p] =
               IF fs = "ok" THEN [@ EXCEPT !.pc = "finish", !.wrote = TRUE]
               ELSE Crash(@, "append_tsv")]
    /\ UNCHANGED <<audioCache, gitInit, started, call>>

\* main after append_tsv: commit, report, hint
MainFinish(p) ==
    /\ inv[p].pc = "finish" /\ inv[p].script = "multi"
    /\ \E push \in BOOLEAN, remote \in BOOLEAN, git \in GitOutcomes :
         LET r == inv[p]
         IN  inv' = [inv EXCEPT ![p] =
               [r EXCEPT !.pc = "done", !.exit = 0, !.push = push,
                         !.remote = remote, !.git = git,
                         !.gitOps = IF ~r.already_exists
                                    THEN git_commit_push(r.tsv_path, commit_message(r.term),
                                                         push, remote, git)
                                    ELSE <<>>,
                         !.out = {"line"}
                                 \cup (IF r.already_exists THEN {"info"} ELSE {})
                                 \cup (IF push /\ ~has_remote(remote, git) /\ ~r.already_exists
                                       THEN {"hint"} ELSE {})]]
    /\ UNCHANGED <<files, audioCache, gitInit, started, call>>

(***************************************************************************)
(* The single-language script                                              *)
(***************************************************************************)
\* main up to the lookup; without a word the usage and exit status 1
SingleStart(p) ==
    /\ inv[p].pc = "idle"
    /\ started < MaxInvocations
    /\ \E argv \in Argvs :
         inv' = [inv EXCEPT ![p] =
             IF argv = <<>>
             THEN [Idle EXCEPT !.pc = "done", !.script = "single",
                               !.out = {"usage"}, !.exit = 1]
             ELSE [Idle EXCEPT !.pc = "gloss", !.script = "single",
                               !.input = str_strip(str_join(<<SP>>, argv)),
                               !.term = str_strip(str_join(<<SP>>, argv)),
                               !.lang = s_en, !.tsv_path = TSV_FILE]]
    /\ started' = started + 1
    /\ UNCHANGED <<files, audioCache, gitInit, call>>

\* main: english_defs_from_dictionaryapi, chinese_gloss_with_trans, play_audio
SingleGloss(p) ==
    /\ inv[p].pc = "gloss" /\ inv[p].script = "single"
    /\ \E w \in Worlds, player \in Players :
         LET r == english_defs_from_dictionaryapi_single(World(w).dict)
         IN  inv' = [inv EXCEPT ![p] =
               [@ EXCEPT !.pc = "append", !.branch = "single",
                         !.fetch = World(w).dict.kind,
                         !.en_text = join_defs(r.defs),
                         !.zh_text = trans_brief(World(w).trans),
                         !.played = play_audio_single(r.audio_url, player)]]
    /\ UNCHANGED <<files, audioCache, gitInit, started, call>>

\* append_tsv of the single-language script: no duplicate check
SingleAppend(p) ==
    /\ inv[p].pc = "append" /\ inv[p].script = "single"
    /\ \E fs \in {"ok", "fail"} :
         LET r == inv[p]
             line == tsv_line(r.term, r.en_text, r.zh_text)
         IN  /\ files' = IF fs = "ok"
                         THEN [touch(files, TSV_FILE) EXCEPT ![TSV_FILE] = file_append(@, line)]
                         ELSE files
             /\ inv' = [inv EXCEPT ![p] =
                   IF fs = "ok" THEN [r EXCEPT !.pc = "finish", !.line = line, !.wrote = TRUE]
                   ELSE Crash(r, "append_tsv")]
    /\ UNCHANGED <<audioCache, gitInit, started, call>>

\* main after append_tsv: git_commit_push, report, hint; auto_push is
\* AUTO_PUSH, set from VOCAB_GIT_AUTO
SingleFinish(p) ==
    /\ inv[p].pc = "finish" /\ inv[p].script = "single"
    /\ \E auto_push \in BOOLEAN, remote \in BOOLEAN, git \in GitOutcomes :
         LET r == inv[p]
         IN  inv' = [inv EXCEPT ![p] =
               [r EXCEPT !.pc = "done", !.exit = 0, !.push = auto_push,
                         !.remote = remote, !.git = git,
                         !.gitOps = git_commit_push_single(commit_message(r.term),
                                                           auto_push, remote, git),
                         !.out = {"saved", "line"}
                                 \cup (IF auto_push /\ ~has_remote(remote, git)
                                       THEN {"hint"} ELSE {})]]
    /\ UNCHANGED <<files, audioCache, gitInit, started, call>>

\* the process ends; the next invocation starts from the files it left
Exit(p) ==
    /\ inv[p].pc = "done"
    /\ inv' = [inv EXCEPT ![p] = Idle]
    /\ UNCHANGED <<files, audioCache, gitInit, started, call>>

Next ==
    \E p \in Sequential :
        \/ MainStart(p)
        \/ GlossEnglish(p)
        \/ GlossSwedish(p)
        \/ GlossEn2sv(p)
        \/ GlossGeneric(p)
        \/ AppendCheck(p)
        \/ AppendWrite(p)
        \/ MainFinish(p)
        \/ SingleStart(p)
        \/ SingleGloss(p)
        \/ SingleAppend(p)
        \/ SingleFinish(p)
        \/ Exit(p)

Spec == Init /\ [][Next]_vars

(***************************************************************************)
(* Two shells running the multi-language script at the same time           *)
(***************************************************************************)
\* the terms the two shells look up: one Swedish word, in two spellings
RaceTerms == { <<"a">>, <<"A">> }

\* an invocation "--lang sv <term>" starts in process p
RaceStart(p) ==
    /\ MainStart(p)
    /\ inv'[p].lang = s_sv
    /\ inv'[p].input \in RaceTerms

\* the steps of the processes interleave; nothing coordinates them
RaceNext ==
    \E p \in Procs :
        \/ RaceStart(p)
        \/ GlossSwedish(p)
        \/ AppendCheck(p)
        \/ AppendWrite(p)
        \/ MainFinish(p)
        \/ Exit(p)

RaceSpec == Init /\ [][RaceNext]_vars

(***************************************************************************)
(* swedish_defs_with_examples called on its own                            *)
(***************************************************************************)
\* Swedish headwords: two outside the example table, one inside it in two
\* spellings
SvWords == { <<"hej">>, <<"a">>, <<"bra">>, <<"Bra">> }

\* the answers of the lexical reference: no answer, a page without a Swedish
\* section, a Swedish entry whose definition is empty, a Swedish entry
SvWiktionaryResponses ==
    WiktionaryResponses
    \cup { Response("json", <<>>, JsonObject([k \in {"Finnish"} |-> <<hej_entry>>])),
           Response("json", <<>>, JsonObject([k \in {"sv"} |->
               << [partOfSpeech |-> <<"Noun">>,
                   definitions |-> << [definition |-> <<>>, examples |-> <<>>] >>] >>])) }

\* the outputs of the translator, also an output without text
SvTransOutcomes == TransOutcomes \cup { Returned(<<NL>>) }

SvInit ==
    /\ Untouched
    /\ \E word \in SvWords, wik \in SvWiktionaryResponses, page \in LexiconPages,
          t1 \in SvTransOutcomes, t2 \in SvTransOutcomes :
          call = [fn |-> "swedish_defs_with_examples", pc |-> "call",
                  word |-> word, wik |-> wik, page |-> page, t1 |-> t1, t2 |-> t2,
                  consulted |-> <<>>, ret |-> <<>>]

SvCall ==
    /\ call.fn = "swedish_defs_with_examples" /\ call.pc = "call"
    /\ call' = [call EXCEPT
          !.pc = "return",
          !.consulted = swedish_sources_consulted(call.wik, call.page, call.t1),
          !.ret = swedish_defs_with_examples(call.word, call.wik, call.page, call.t1, call.t2)]
    /\ UNCHANGED <<files, audioCache, gitInit, started, inv>>

SvSpec == SvInit /\ [][SvCall]_vars

(***************************************************************************)
(* english_to_swedish_with_examples called on its own                      *)
(***************************************************************************)
\* English words: one of the keyed templates in two spellings, one without
En2svWords == { <<"hello">>, <<"Hello">>, <<"a">> }

\* pages of the reverse lookup: besides LexiconPages an empty page, a page
\* of two entries of which the second has no example, and a page whose
\* only entry has a blank translation
En2svPages ==
    LexiconPages
    \cup { Returned(<<>>),
           Returned(<< Block(<<"hej">>, <<"hello">>, <<"interj">>,
                             << <<SP, "hej", SP, "du", "<br>">>, <<"hej", SP, "hej">> >>),
                       Block(<<"hallå">>, <<"hello">>, <<>>, <<>>) >>),
           Returned(<< Block(<<SP>>, <<"hello">>, <<"interj">>, <<>>) >>) }

En2svInit ==
    /\ Untouched
    /\ \E word \in En2svWords, page \in En2svPages,
          t1 \in SvTransOutcomes, t2 \in SvTransOutcomes :
          call = [fn |-> "english_to_swedish_with_examples", pc |-> "call",
                  word |-> word, page |-> page, t1 |-> t1, t2 |-> t2, ret |-> <<>>]

En2svCall ==
    /\ call.fn = "english_to_swedish_with_examples" /\ call.pc = "call"
    /\ call' = [call EXCEPT
          !.pc = "return",
          !.ret = english_to_swedish_with_examples(call.word, call.page, call.t1, call.t2)]
    /\ UNCHANGED <<files, audioCache, gitInit, started, inv>>

En2svSpec == En2svInit /\ [][En2svCall]_vars

(***************************************************************************)
(* tsv_path_for_lang called on its own                                     *)
(***************************************************************************)
\* language codes without a region, in the spellings a caller may use
BaseCodes ==
    { <<"z", "h">>, <<"Z", "H">>, <<"Z", "h">>, <<"e", "n">>, <<"E", "N">>,
      <<"s", "v">>, <<"S", "V">>, <<"f", "r">>,
      <<"f", "i", "l">>, <<"F", "I", "L">>, <<"c">>, <<"C">> }

\* region suffixes
Regions ==
    { <<"U", "S">>, <<"c", "n">>, <<"C", "N">>, <<"t", "w">>, <<"H", "a", "n", "s">>,
      <<"H", "a", "n", "s", "-", "C", "N">> }

\* a caller holds a code with a region and the base code in some spelling
PathInit ==
    /\ Untouched
    /\ \E base \in BaseCodes, spelt \in BaseCodes, region \in Regions :
          /\ str_lower(base) = str_lower(spelt)
          /\ call = [fn |-> "tsv_path_for_lang", pc |-> "call",
                     base |-> base, coded |-> spelt \o <<"-">> \o region,
                     ret_base |-> <<>>, ret_coded |-> <<>>]

\* both paths are computed
PathCall ==
    /\ call.fn = "tsv_path_for_lang" /\ call.pc = "call"
    /\ call' = [call EXCEPT !.pc = "return",
                            !.ret_base = tsv_path_for_lang(call.base),
                            !.ret_coded = tsv_path_for_lang(call.coded)]
    /\ UNCHANGED <<files, audioCache, gitInit, started, inv>>

PathSpec == PathInit /\ [][PathCall]_vars

(***************************************************************************)
(* Properties                                                              *)
(***************************************************************************)
\* the first tab-separated field of a stored line
first_field(line) == str_split_head(line, <<TAB>>)

\* the number of tab-separated fields of a stored line
field_count(line) == 1 + Len(SelectSeq(line, LAMBDA e : e = TAB))

\* the vocabulary files of the multi-language script
LanguageFiles == DOMAIN files \ {TSV_FILE}

\* the content of a file before a step, a missing file having none
OldContent(f) == IF f \in DOMAIN files THEN files[f] ELSE <<>>

\* whether a stored line of the file has the word as its first field,
\* compared without regard to case
HeadwordStored(f, word) ==
    /\ f \in DOMAIN files
    /\ \E i \in 1..Len(text_lines(files[f])) :
          str_lower(first_field(text_lines(files[f])[i])) = str_lower(word)

\* the number of stored lines of the file whose first field is the word,
\* compared without regard to case
HeadwordLines(f, word) ==
    IF f \notin DOMAIN files THEN 0
    ELSE Cardinality({ i \in 1..Len(text_lines(files[f])) :
            str_lower(first_field(text_lines(files[f])[i])) = str_lower(word) })

\* C1: no two stored lines of a per-language vocabulary file have first
\* fields that are equal when compared case-insensitively.
C1_UniqueHeadwords ==
    \A f \in LanguageFiles :
        \A i, j \in 1..Len(text_lines(files[f])) :
            i # j => str_lower(first_field(text_lines(files[f])[i]))
                     # str_lower(first_field(text_lines(files[f])[j]))

\* C2: append_tsv called with a headword that matches the first field of an
\* existing line reports a duplicate (it never goes on to write), leaves the
\* file as it was, and the invocation runs no stage, commit or push.
C2_DuplicateShortCircuits ==
    \A p \in Procs :
        /\ (inv[p].script = "multi" /\ inv[p].pc = "write")
              => ~HeadwordStored(inv[p].tsv_path, inv[p].term)
        /\ (inv[p].script = "multi" /\ inv[p].already_exists)
              => (~inv[p].wrote /\ inv[p].gitOps = <<>>)

\* C3: an invocation that appended a new record and found git working has
\* staged the file it wrote and then committed with the message
\* "add <headword>".
C3_StageThenCommit ==
    \A p \in Procs :
        (inv[p].pc = "done" /\ inv[p].wrote /\ inv[p].exc = "" /\ inv[p].git = "ok")
            => /\ Len(inv[p].gitOps) >= 2
               /\ inv[p].gitOps[1] = GitAdd(inv[p].tsv_path)
               /\ inv[p].gitOps[2] = GitCommit(commit_message(inv[p].term))

\* C4: in an invocation that appended a new record (git working), a push is
\* attempted exactly when push is enabled and a remote is configured.
C4_PushIffEnabledAndRemote ==
    \A p \in Procs :
        (inv[p].pc = "done" /\ inv[p].wrote /\ inv[p].exc = "" /\ inv[p].git = "ok")
            => ((\E i \in 1..Len(inv[p].gitOps) : inv[p].gitOps[i] = GitPush)
                   <=> (inv[p].push /\ inv[p].remote))

\* C5: the vocabulary files are append-only: a step never removes a file, the
\* content of a file before the step is a prefix of its content after it, at
\* most one file grows, and what is added is the one record of an invocation
\* that had not written before.
C5_AppendOnly ==
    [][ /\ DOMAIN files \subseteq DOMAIN files'
        /\ Cardinality({f \in DOMAIN files' : files'[f] # OldContent(f)}) <= 1
        /\ \A f \in DOMAIN files' :
              \/ files'[f] = OldContent(f)
              \/ \E p \in Procs :
                    /\ ~inv[p].wrote /\ inv'[p].wrote
                    /\ files'[f] = OldContent(f)
                          \o tsv_line(inv'[p].term, inv'[p].en_text, inv'[p].zh_text)
      ]_vars

\* C5 witness: an invocation has appended its record to a file that already
\* held a record of an earlier invocation.
C5_Witness ==
    \E p \in Procs :
        /\ inv[p].wrote
        /\ Len(text_lines(files[inv[p].tsv_path])) >= 2

\* C6: language resolution returns a non-empty lowercase string of at least
\* two characters.
C6_ResolvedCodeWellFormed ==
    \A p \in Procs :
        (inv[p].script = "multi" /\ inv[p].pc = "gloss")
            => /\ Len(inv[p].lang) >= 2
               /\ inv[p].lang = str_lower(inv[p].lang)

\* C7: when the dictionary fetch of the English branch fails with an HTTP
\* error or an unparsable body, the primary gloss is the diagnostic
\* "(dictapi HTTP <code>)" or "(dictapi error: ...)".
C7_FetchFailureDiagnostic ==
    \A p \in Procs :
        (inv[p].pc = "append" /\ inv[p].branch \in {"en", "single"}
            /\ inv[p].fetch \in {"http", "neterr", "empty", "html", "badjson"})
            => \/ /\ inv[p].fetch = "http"
                  /\ str_at(inv[p].en_text, <<"(", "dictapi", SP, "HTTP", SP>>, 1)
               \/ /\ inv[p].fetch # "http"
                  /\ str_at(inv[p].en_text, <<"(", "dictapi", SP, "error:", SP>>, 1)

\* C8: no exception leaves a component of the pipeline.
C8_NoExceptionEscapes ==
    \A p \in Procs : inv[p].exc = ""

\* C9: in en2sv mode the headword to be persisted is the Swedish translation
\* of the input, not the input, and the file is the Swedish vocabulary file.
C9_En2svHeadwordIsTranslation ==
    \A p \in Procs :
        (inv[p].branch = "en2sv" /\ inv[p].pc \in {"append", "write", "finish"})
            => /\ inv[p].tsv_path = <<"vocab_", "s", "v", ".tsv">>
               /\ inv[p].term = Translation
               /\ inv[p].term # inv[p].input

\* C10: every stored line consists of exactly three tab-separated fields
\* followed by a newline.
C10_ThreeFieldsPerLine ==
    \A f \in DOMAIN files :
        /\ files[f] # <<>> => files[f][Len(files[f])] = NL
        /\ \A i \in 1..Len(text_lines(files[f])) :
              field_count(text_lines(files[f])[i]) = 3

\* C11: every record that is appended has a non-empty headword.
C11_HeadwordNonEmpty ==
    /\ \A f \in DOMAIN files :
          \A i \in 1..Len(text_lines(files[f])) :
              first_field(text_lines(files[f])[i]) # <<>>
    /\ \A p \in Procs : inv[p].wrote => inv[p].term # <<>>

\* C12: the process ends with status 1 and the usage message when no term is
\* supplied, and with status 0 in every other invocation.
C12_ExitCodes ==
    \A p \in Procs :
        inv[p].pc = "done"
            => IF "usage" \in inv[p].out THEN inv[p].exit = 1 ELSE inv[p].exit = 0

\* C13: tsv_path_for_lang(base + "-" + region) is the path of
\* tsv_path_for_lang(base), whatever the letter case of either.
C13_RegionStripped ==
    (call.fn = "tsv_path_for_lang" /\ call.pc = "return")
        => /\ call.ret_coded = call.ret_base
           /\ call.ret_base = <<"vocab_">> \o str_lower(call.base) \o <<".tsv">>

\* C13 witness: "ZH-cn" and "zh" have been resolved to the same file.
C13_Witness ==
    /\ call.fn = "tsv_path_for_lang" /\ call.pc = "return"
    /\ call.base = <<"z", "h">>
    /\ call.coded = <<"Z", "H", "-", "c", "n">>
    /\ call.ret_coded = <<"vocab_", "z", "h", ".tsv">>

\* C14: when two invocations running at the same time have both appended the
\* same headword to the same file (each passed the duplicate check before the
\* other wrote), the file holds two lines for that headword.
C14_RaceAppendsTwice ==
    \A p, q \in Procs :
        (/\ p # q
         /\ inv[p].wrote /\ inv[q].wrote
         /\ inv[p].tsv_path = inv[q].tsv_path
         /\ str_lower(inv[p].term) = str_lower(inv[q].term))
            => HeadwordLines(inv[p].tsv_path, inv[p].term) >= 2

\* C14 witness: both invocations have appended the headword "a" and the file
\* ends with two lines for it.
C14_Witness ==
    \E p, q \in Procs :
        /\ p # q
        /\ inv[p].wrote /\ inv[q].wrote
        /\ inv[p].term = <<"a">> /\ inv[q].term = <<"a">>
        /\ inv[p].pc = "done" /\ inv[q].pc = "done"
        /\ inv[p].tsv_path = inv[q].tsv_path
        /\ Len(text_lines(files[inv[p].tsv_path])) = 2
        /\ HeadwordLines(inv[p].tsv_path, <<"a">>) = 2

\* what the lexical reference alone gives for the headword
SvReferenceGloss(wik) ==
    IF wik.kind = "json" /\ wik.data.type = "dict"
       /\ DOMAIN wik.data.sections \cap {"Swedish", "sv"} # {}
    THEN sv_wiktionary(wik.data)
    ELSE <<>>

\* what the bilingual lexicon alone gives for the headword
SvLexiconGloss(page) ==
    IF page.tag = "ok" THEN sv_lexicon(fetch_folkets_lexikon(page, s_sv)) ELSE <<>>

\* the generic templated sentence
SvGenericSentence(word, en_trans) ==
    <<"[", "word", "]", SP>> \o en_trans
    \o <<SP, "(", "e.g.", SP, "Jag", SP, "använder", SP, "'">> \o word
    \o <<"'", SP, "i", SP, "svenska", SP, "(", "I", SP, "use", SP, "'">> \o word
    \o <<"'", SP, "in", SP, "Swedish", ")", ")">>

\* C15: swedish_defs_with_examples returns the result of the first of lexical
\* reference, bilingual lexicon and templated bridge translation that yields
\* a non-empty list, without consulting a later one; when only the bridge
\* translation succeeds and the lowercase headword is not in the example
\* table, the result is the generic templated sentence.
C15_FirstTierWins ==
    (call.fn = "swedish_defs_with_examples" /\ call.pc = "return")
        => LET reference == SvReferenceGloss(call.wik)
               lexicon == SvLexiconGloss(call.page)
               en_trans == trans_brief(call.t1)
           IN  /\ reference # <<>>
                     => call.ret = reference /\ call.consulted = <<"wiktionary">>
               /\ (reference = <<>> /\ lexicon # <<>>)
                     => call.ret = lexicon /\ call.consulted = <<"wiktionary", "lexicon">>
               /\ (reference = <<>> /\ lexicon = <<>> /\ en_trans # <<>>)
                     => /\ call.consulted = <<"wiktionary", "lexicon", "trans">>
                        /\ Len(call.ret) = 1
                        /\ str_lower(call.word) \notin {<<"bra">>}
                              => call.ret = << SvGenericSentence(call.word, en_trans) >>

\* C15 witness: for "hej" only the bridge translation succeeded and the
\* result is the generic sentence.
C15_Witness ==
    /\ call.fn = "swedish_defs_with_examples" /\ call.pc = "return"
    /\ call.word = <<"hej">>
    /\ call.wik.kind = "neterr" /\ call.page.tag = "raise"
    /\ call.consulted = <<"wiktionary", "lexicon", "trans">>
    /\ call.ret = << SvGenericSentence(<<"hej">>, <<"hej">>) >>

\* the entries of the reverse lookup that carry a translation
En2svFound(page) ==
    SelectSeq(fetch_folkets_lexikon(page, s_en), LAMBDA e : e.translation # <<>>)

\* "[class] translation (e.g. example)"
En2svWithExample(e) ==
    <<"[">> \o e.class \o <<"]", SP>> \o e.translation
    \o <<SP, "(", "e.g.", SP>> \o e.examples[1] \o <<")">>

\* "[class] translation"
En2svPlain(e) == <<"[">> \o e.class \o <<"]", SP>> \o e.translation

\* the bridge translation in the template keyed by the word, or in the
\* generic template
En2svBridgeGloss(word, sv_trans) ==
    IF str_lower(word) = <<"hello">>
    THEN <<"[", "word", "]", SP>> \o sv_trans \o <<SP, "-", SP>> \o sv_trans
         \o <<",", SP, "hur", SP, "mår", SP, "du?", SP, "(", "Hello,", SP, "how", SP, "are", SP, "you?", ")">>
    ELSE <<"[", "word", "]", SP>> \o sv_trans
         \o <<SP, "(", "e.g.", SP, "Jag", SP, "lär", SP, "mig", SP, "svenska", SP,
              "ord", SP, "som", SP, "'">> \o sv_trans \o <<"'", ")">>

\* C16 as stated: lexicon-based glosses are returned only when the reverse
\* lookup found a translation with an example, each formatted
\* "[class] translation (e.g. example)"; in every other case (no translation,
\* or a translation without an example) the result is the bridge translation
\* in a keyed or the generic template.
C16_LexiconOnlyWithExample ==
    (call.fn = "english_to_swedish_with_examples" /\ call.pc = "return"
        /\ trans_brief(call.t1) # <<>>)
        => LET found == En2svFound(call.page)
           IN  IF found # <<>> /\ \A i \in 1..Len(found) : found[i].examples # <<>>
               THEN call.ret = [i \in 1..Len(found) |-> En2svWithExample(found[i])]
               ELSE call.ret = << En2svBridgeGloss(call.word, trans_brief(call.t1)) >>

\* C16 amended: lexicon-based glosses are returned whenever the reverse
\* lookup found a translation, an entry with an example formatted
\* "[class] translation (e.g. example)" and an entry without one
\* "[class] translation"; only when no translation was found is the result
\* the bridge translation in a keyed or the generic template, and when the
\* bridge translation is empty too, the plain second translation or
\* "(no translation found)".
C16_LexiconWhenTranslation ==
    (call.fn = "english_to_swedish_with_examples" /\ call.pc = "return")
        => LET found == En2svFound(call.page)
           IN  IF found # <<>>
               THEN call.ret = [i \in 1..Len(found) |->
                                   IF found[i].examples # <<>>
                                   THEN En2svWithExample(found[i])
                                   ELSE En2svPlain(found[i])]
               ELSE IF trans_brief(call.t1) # <<>>
               THEN call.ret = << En2svBridgeGloss(call.word, trans_brief(call.t1)) >>
               ELSE IF trans_brief(call.t2) # <<>>
               THEN call.ret = << trans_brief(call.t2) >>
               ELSE call.ret = << no_translation_found >>

\* C16 witness: the lookup found one translation with an example and one
\* without, and both are returned as lexicon glosses.
C16_Witness ==
    /\ call.fn = "english_to_swedish_with_examples" /\ call.pc = "return"
    /\ Len(En2svFound(call.page)) = 2
    /\ call.ret = << <<"[", "interj", "]", SP, "hej", SP, "(", "e.g.", SP, "hej", SP, "du", ")">>,
                     <<"[", "word", "]", SP, "hallå">> >>

\* C17: an entry of the audio cache holds the complete bytes of a successful
\* download, so play_audio never plays a cached file that is empty or partial.
C17_CacheEntriesComplete ==
    \A key \in DOMAIN audioCache : audioCache[key] = "complete"

\* C18: the branch of main and the output file are selected by the same
\* code: vocab_en.tsv is written only by the English dictionary branch,
\* vocab_sv.tsv only by the Swedish and en2sv branches, and the generic
\* branch writes only to the files of other codes.
C18_BranchMatchesFile ==
    \A p \in Procs :
        (inv[p].script = "multi" /\ inv[p].wrote)
            => /\ inv[p].tsv_path = <<"vocab_", "e", "n", ".tsv">> => inv[p].branch = "en"
               /\ inv[p].tsv_path = <<"vocab_", "s", "v", ".tsv">>
                     => inv[p].branch \in {"sv", "en2sv"}
               /\ inv[p].branch = "generic"
                     => inv[p].tsv_path \notin { <<"vocab_", "e", "n", ".tsv">>,
                                                 <<"vocab_", "s", "v", ".tsv">> }

====
